---------------------------- MODULE Spec2Model ----------------------------
(***************************************************************************)
(* Model of src/src/julian.rs: the ModifiedJulian time system.             *)
(*                                                                         *)
(* The code computes in IEEE-754 binary64 (f64).  The model computes the   *)
(* same values bit for bit: a float is a sign, a 53-bit significand and an *)
(* exponent, and every operation is the exact result rounded to nearest,   *)
(* ties to even.  Significands and the u64 field do not fit the 32-bit     *)
(* integers of TLC, so naturals are kept as little-endian sequences of     *)
(* 15-bit limbs.                                                           *)
(***************************************************************************)
EXTENDS Integers, Sequences, FiniteSets, TLC

(***************************************************************************)
(* Naturals of any size: <<l0, l1, ...>> is l0 + l1*Base + ..., the last   *)
(* limb non-zero; <<>> is 0.                                               *)
(***************************************************************************)
Base == 2^15

RECURSIVE IntBitLen(_)
IntBitLen(n) == IF n = 0 THEN 0 ELSE 1 + IntBitLen(n \div 2)

LimbBits == IntBitLen(Base - 1)

RECURSIVE BNorm(_)
BNorm(a) ==
    IF a = <<>> THEN <<>>
    ELSE IF a[Len(a)] = 0 THEN BNorm(SubSeq(a, 1, Len(a) - 1))
    ELSE a

RECURSIVE BFromInt(_)
BFromInt(n) == IF n = 0 THEN <<>> ELSE <<n % Base>> \o BFromInt(n \div Base)

BLimb(a, i) == IF i <= Len(a) THEN a[i] ELSE 0

RECURSIVE BAddC(_, _, _, _)
BAddC(a, b, i, c) ==
    IF i > Len(a) /\ i > Len(b)
    THEN (IF c = 0 THEN <<>> ELSE <<c>>)
    ELSE LET t == BLimb(a, i) + BLimb(b, i) + c
         IN  <<t % Base>> \o BAddC(a, b, i + 1, t \div Base)

BAdd(a, b) == BAddC(a, b, 1, 0)

\* a - b for a >= b
RECURSIVE BSubC(_, _, _, _)
BSubC(a, b, i, c) ==
    IF i > Len(a) THEN <<>>
    ELSE LET t == BLimb(a, i) - BLimb(b, i) - c
         IN  IF t < 0 THEN <<t + Base>> \o BSubC(a, b, i + 1, 1)
                      ELSE <<t>> \o BSubC(a, b, i + 1, 0)

BSub(a, b) == BNorm(BSubC(a, b, 1, 0))

\* -1, 0, 1 as a < b, a = b, a > b
RECURSIVE BCmpAt(_, _, _)
BCmpAt(a, b, i) ==
    IF i = 0 THEN 0
    ELSE IF a[i] < b[i] THEN -1
    ELSE IF a[i] > b[i] THEN 1
    ELSE BCmpAt(a, b, i - 1)

BCmp(a, b) ==
    IF Len(a) < Len(b) THEN -1
    ELSE IF Len(a) > Len(b) THEN 1
    ELSE BCmpAt(a, b, Len(a))

BLt(a, b) == BCmp(a, b) < 0
BLe(a, b) == BCmp(a, b) <= 0

\* a * k + c for 0 <= k, c < Base
RECURSIVE BMulSmallC(_, _, _, _)
BMulSmallC(a, k, i, c) ==
    IF i > Len(a) THEN (IF c = 0 THEN <<>> ELSE <<c>>)
    ELSE LET t == a[i] * k + c
         IN  <<t % Base>> \o BMulSmallC(a, k, i + 1, t \div Base)

BMulSmall(a, k) == IF k = 0 THEN <<>> ELSE BMulSmallC(a, k, 1, 0)

BShiftLimbs(a, n) == IF a = <<>> THEN <<>> ELSE [i \in 1..n |-> 0] \o a

RECURSIVE BMulAt(_, _, _)
BMulAt(a, b, i) ==
    IF i > Len(b) THEN <<>>
    ELSE BAdd(BShiftLimbs(BMulSmall(a, b[i]), i - 1), BMulAt(a, b, i + 1))

BMul(a, b) == BMulAt(a, b, 1)

\* a * 2^k
BShl(a, k) == BShiftLimbs(BMulSmall(a, 2^(k % LimbBits)), k \div LimbBits)

\* floor(a / k) for 0 < k < Base, from the top limb down; r is the running remainder
RECURSIVE BDivSmallAt(_, _, _, _)
BDivSmallAt(a, k, i, r) ==
    IF i = 0 THEN <<>>
    ELSE LET t == r * Base + a[i]
         IN  BDivSmallAt(a, k, i - 1, t % k) \o <<t \div k>>

BDivSmall(a, k) == BNorm(BDivSmallAt(a, k, Len(a), 0))

BDropLimbs(a, n) == IF n >= Len(a) THEN <<>> ELSE SubSeq(a, n + 1, Len(a))

\* floor(a / 2^k)
BShr(a, k) == BDivSmall(BDropLimbs(a, k \div LimbBits), 2^(k % LimbBits))

\* a mod 2^k
BLow(a, k) ==
    LET n == k \div LimbBits
        r == k % LimbBits
    IN  IF n >= Len(a) THEN a
        ELSE BNorm(SubSeq(a, 1, n) \o <<a[n + 1] % (2^r)>>)

BBitLen(a) == IF a = <<>> THEN 0 ELSE LimbBits * (Len(a) - 1) + IntBitLen(a[Len(a)])

BPow2(k) == BShl(<<1>>, k)

BIsOdd(a) == a # <<>> /\ a[1] % 2 = 1

\* <<floor(a / b), a mod b>> for b > 0 and a < b * 2^n: binary long division,
\* the n quotient bits found high half first
RECURSIVE BDivBits(_, _, _)
BDivBits(a, b, n) ==
    IF n = 0 THEN <<(<<>>), a>>
    ELSE IF n = 1 THEN (IF BLe(b, a) THEN <<(<<1>>), BSub(a, b)>> ELSE <<(<<>>), a>>)
    ELSE LET h  == n \div 2
             hi == BDivBits(a, BShl(b, h), n - h)
             lo == BDivBits(hi[2], b, h)
         IN  <<BAdd(BShl(hi[1], h), lo[1]), lo[2]>>

BDivMod(a, b) ==
    IF BLt(a, b) THEN <<(<<>>), a>>
    ELSE BDivBits(a, b, BBitLen(a) - BBitLen(b) + 1)

(***************************************************************************)
(* f64.  A float is [k, s, m, e]: kind "fin", "inf" or "nan", sign s (1 is *)
(* negative), and for a finite value the magnitude m * 2^e, kept canonical *)
(* so that equal values are equal records: m = 0 and e = 0, or             *)
(* 2^52 <= m < 2^53 and EMin <= e <= EMax (normal), or m < 2^52 and        *)
(* e = EMin (subnormal).                                                   *)
(***************************************************************************)
Precision == 53
EMin == -1074
EMax == 971

FZero(s) == [k |-> "fin", s |-> s, m |-> <<>>, e |-> 0]
FInf(s)  == [k |-> "inf", s |-> s, m |-> <<>>, e |-> 0]
FNaN     == [k |-> "nan", s |-> 0, m |-> <<>>, e |-> 0]

IsFinite(a) == a.k = "fin"
IsZero(a)   == a.k = "fin" /\ a.m = <<>>

Max(x, y) == IF x >= y THEN x ELSE y

\* The finite float (-1)^s * m * 2^e, for m of at most Precision bits; infinity
\* when e is beyond the largest exponent
FPack(s, m, e) ==
    IF m = <<>> THEN FZero(s)
    ELSE IF e > EMax THEN FInf(s)
    ELSE [k |-> "fin", s |-> s, m |-> m, e |-> e]

\* a significand that rounding carried to 2^Precision is renormalised
FCarry(s, m, e, len) ==
    IF len > Precision THEN FPack(s, BShr(m, 1), e + 1) ELSE FPack(s, m, e)

\* m0 rounded up or not: c compares the bits dropped with half a unit of m0
FRoundUp(s, m0, c, sticky, e) ==
    IF c > 0 \/ (c = 0 /\ (sticky \/ BIsOdd(m0)))
    THEN FCarry(s, BAdd(m0, <<1>>), e, BBitLen(BAdd(m0, <<1>>)))
    ELSE FPack(s, m0, e)

\* q loses its `drop` low bits
FRoundDrop(s, q, sticky, ex, drop) ==
    FRoundUp(s, BShr(q, drop), BCmp(BLow(q, drop), BPow2(drop - 1)), sticky, ex + drop)

\* q of len >= Precision + 1 bits: keep Precision bits, fewer below EMin
FRoundLen(s, q, sticky, ex, len) ==
    FRoundDrop(s, q, sticky, ex, Max(len - Precision, EMin - ex))

\* q of len bits, widened to Precision + 1 bits when shorter
FRoundPad(s, q, sticky, ex, len, pad) ==
    FRoundLen(s, BShl(q, pad), sticky, ex - pad, len + pad)

\* The float nearest to (-1)^s * (q + f) * 2^ex, ties to even, where f = 0 if
\* ~sticky and 0 < f < 1 if sticky (then q has at least Precision + 1 bits).
FRoundBits(s, q, sticky, ex) ==
    IF q = <<>> /\ ~sticky THEN FZero(s)
    ELSE FRoundPad(s, q, sticky, ex, BBitLen(q), Max(0, Precision + 1 - BBitLen(q)))

\* the same for <<s, q, sticky, ex>>
FRoundTuple(t) == FRoundBits(t[1], t[2], t[3], t[4])

\* <<n, d>> with n or d scaled by 2^|sh| so that n / d has Precision + 2 or
\* Precision + 3 integer bits
FScale(n, d, sh) ==
    IF sh >= 0 THEN <<BShl(n, sh), d>> ELSE <<n, BShl(d, 0 - sh)>>

FRoundQuot(s, qr, ex) == FRoundBits(s, qr[1], qr[2] # <<>>, ex)

FRoundScaled(s, nd, ex) == FRoundQuot(s, BDivMod(nd[1], nd[2]), ex)

FRoundShift(s, n, d, ex, sh) == FRoundScaled(s, FScale(n, d, sh), ex - sh)

\* The float nearest to (-1)^s * (n / d) * 2^ex, for d > 0
FRoundRat(s, n, d, ex) ==
    IF n = <<>> THEN FZero(s)
    ELSE FRoundShift(s, n, d, ex, Precision + 2 + BBitLen(d) - BBitLen(n))

\* u64 as f64, u32 as f64
FFromNat(n) == FRoundBits(0, n, FALSE, 0)

FNeg(a) == IF a.k = "nan" THEN a ELSE [a EXCEPT !.s = 1 - @]

\* hi + lo as <<sign, magnitude, sticky, exponent>>, A being hi.m in units of
\* 2^lo.e and c comparing A with lo.m
FAddAligned(hi, lo, A, c) ==
    IF hi.s = lo.s THEN <<hi.s, BAdd(A, lo.m), FALSE, lo.e>>
    ELSE IF c > 0 THEN <<hi.s, BSub(A, lo.m), FALSE, lo.e>>
    ELSE IF c < 0 THEN <<lo.s, BSub(lo.m, A), FALSE, lo.e>>
    ELSE <<0, <<>>, FALSE, 0>>

FAddNear(hi, lo, A) == FAddAligned(hi, lo, A, BCmp(A, lo.m))

\* lo below a quarter of hi's last place: it only breaks ties
FAddFar(hi, lo, q4) ==
    <<hi.s, IF hi.s = lo.s THEN q4 ELSE BSub(q4, <<1>>), TRUE, hi.e - 2>>

\* hi + lo for finite non-zero floats with hi.e >= lo.e
FAddOrdered(hi, lo) ==
    FRoundTuple(IF hi.e - lo.e > Precision + 8
                THEN FAddFar(hi, lo, BShl(hi.m, 2))
                ELSE FAddNear(hi, lo, BShl(hi.m, hi.e - lo.e)))

\* a + b
FAdd(a, b) ==
    IF a.k = "nan" \/ b.k = "nan" THEN FNaN
    ELSE IF a.k = "inf" THEN (IF b.k = "inf" /\ b.s # a.s THEN FNaN ELSE a)
    ELSE IF b.k = "inf" THEN b
    ELSE IF a.m = <<>> /\ b.m = <<>> THEN FZero(IF a.s = b.s THEN a.s ELSE 0)
    ELSE IF a.m = <<>> THEN b
    ELSE IF b.m = <<>> THEN a
    ELSE FAddOrdered(IF a.e >= b.e THEN a ELSE b, IF a.e >= b.e THEN b ELSE a)

\* a - b
FSub(a, b) == FAdd(a, FNeg(b))

\* a * b
FMul(a, b) ==
    IF a.k = "nan" \/ b.k = "nan" THEN FNaN
    ELSE IF a.k = "inf" \/ b.k = "inf"
         THEN (IF IsZero(a) \/ IsZero(b) THEN FNaN ELSE FInf((a.s + b.s) % 2))
    ELSE FRoundBits((a.s + b.s) % 2, BMul(a.m, b.m), FALSE, a.e + b.e)

\* a / b
FDiv(a, b) ==
    IF a.k = "nan" \/ b.k = "nan" THEN FNaN
    ELSE IF a.k = "inf" THEN (IF b.k = "inf" THEN FNaN ELSE FInf((a.s + b.s) % 2))
    ELSE IF b.k = "inf" THEN FZero((a.s + b.s) % 2)
    ELSE IF b.m = <<>> THEN (IF a.m = <<>> THEN FNaN ELSE FInf((a.s + b.s) % 2))
    ELSE FRoundRat((a.s + b.s) % 2, a.m, b.m, a.e - b.e)

\* the integer part ip of |a|, one more if the t fraction bits reach a half
FRoundAway(a, t, ip) ==
    FRoundBits(a.s, IF BLe(BPow2(t - 1), BLow(a.m, t)) THEN BAdd(ip, <<1>>) ELSE ip,
               FALSE, 0)

\* f64::round: the nearest integer, halves away from zero
FRound(a) ==
    IF a.k # "fin" \/ a.m = <<>> \/ a.e >= 0 THEN a
    ELSE FRoundAway(a, 0 - a.e, BShr(a.m, 0 - a.e))

\* -1, 0, 1 as |a| < |b|, |a| = |b|, |a| > |b|, for finite a and b
FCmpMag(a, b) ==
    IF a.m = <<>> \/ b.m = <<>>
    THEN (IF a.m = b.m THEN 0 ELSE IF a.m = <<>> THEN -1 ELSE 1)
    ELSE IF a.e # b.e THEN (IF a.e < b.e THEN -1 ELSE 1)
    ELSE BCmp(a.m, b.m)

\* -1, 0, 1 as a < b, a = b, a > b, for a and b not NaN
FCmp(a, b) ==
    LET sa == IF a.s = 1 THEN -1 ELSE 1
        sb == IF b.s = 1 THEN -1 ELSE 1
    IN  IF IsZero(a) /\ IsZero(b) THEN 0
        ELSE IF IsZero(a) THEN 0 - sb
        ELSE IF IsZero(b) THEN sa
        ELSE IF sa # sb THEN sa
        ELSE IF a.k = "inf" \/ b.k = "inf"
             THEN (IF a.k = b.k THEN 0 ELSE IF a.k = "inf" THEN sa ELSE 0 - sa)
        ELSE sa * FCmpMag(a, b)

\* a >= b, a <= b, a < b
FGe(a, b) == a.k # "nan" /\ b.k # "nan" /\ FCmp(a, b) >= 0
FLe(a, b) == a.k # "nan" /\ b.k # "nan" /\ FCmp(a, b) <= 0
FLt(a, b) == a.k # "nan" /\ b.k # "nan" /\ FCmp(a, b) < 0

\* The integer part of |a|, for finite a
FTrunc(a) == IF a.e >= 0 THEN BShl(a.m, a.e) ELSE BShr(a.m, 0 - a.e)

\* a, truncated toward zero, is one of 0 .. 2^w - 1
InRange(a, w) ==
    /\ a.k = "fin"
    /\ \/ a.m = <<>>
       \/ BBitLen(a.m) + a.e <= 0
       \/ a.s = 0 /\ BBitLen(a.m) + a.e <= w

\* `a as uW` as Rust defines it since 1.45: clamped to the range, NaN to 0
Saturate(a, w) ==
    IF a.k = "nan" \/ a.s = 1 THEN <<>>
    ELSE IF InRange(a, w) THEN FTrunc(a)
    ELSE BSub(BPow2(w), <<1>>)

\* `a as uW` keeping the low w bits of the two's-complement integer
Wrap(a, w) ==
    IF a.k # "fin" \/ a.m = <<>> \/ a.e >= w THEN <<>>
    ELSE LET t == BLow(FTrunc(a), w)
         IN  IF a.s = 0 \/ t = <<>> THEN t ELSE BSub(BPow2(w), t)

\* `a as uW`: the truncated value when it is in range.  Out of range the cast
\* was undefined behaviour when this code was written (until Rust 1.45) and
\* saturates since: any of the outcomes a build produces.
CastUnsigned(a, w) ==
    IF InRange(a, w) THEN {FTrunc(a)} ELSE {Saturate(a, w), Wrap(a, w)}

(***************************************************************************)
(* julian.rs                                                               *)
(***************************************************************************)
N(i) == BFromInt(i)

J1900_OFFSET    == FFromNat(N(15020))
DAYS_PER_YEAR   == FRoundBits(0, N(1461), FALSE, -2)
SECONDS_PER_DAY == FFromNat(N(86400))

\* the literals 1.0, -1.0, 2_400_000.5, 1e-9 and 1e9
One       == FFromNat(N(1))
MinusOne  == FNeg(One)
JD_OFFSET == FRoundBits(0, N(4800001), FALSE, -1)
NANO      == FRoundRat(0, N(1), N(10^9), 0)
GIGA      == FFromNat(N(10^9))

U64Bits == 64
U32Bits == 32

\* An Instant as julian.rs sees it: what era(), secs() and nanos() return, and
\* what as_instant hands to Instant::new
Instant(era, secs, nanos) == [era |-> era, secs |-> secs, nanos |-> nanos]

ModifiedJulian(days) == [days |-> days]

\* julian_days with the half day of the offset lost: 2_400_000.0
julian_days_whole(self) == FAdd(self.days, FFromNat(N(2400000)))

julian_days(self) == FAdd(self.days, JD_OFFSET)

FromModifier(instant) == IF instant.era = "Present" THEN One ELSE MinusOne

\* from_instant with the era's sign given to the nanosecond term as well
from_instant_signed_nanos(instant) ==
    ModifiedJulian(
        FAdd(FAdd(J1900_OFFSET,
                  FDiv(FMul(FromModifier(instant), FFromNat(instant.secs)),
                       SECONDS_PER_DAY)),
             FMul(FMul(FromModifier(instant), FFromNat(instant.nanos)), NANO)))

from_instant(instant) ==
    ModifiedJulian(
        FAdd(FAdd(J1900_OFFSET,
                  FDiv(FMul(FromModifier(instant), FFromNat(instant.secs)),
                       SECONDS_PER_DAY)),
             FMul(FFromNat(instant.nanos), NANO)))

\* the era test with > for >=
AsEra_strict(self) == IF FLt(J1900_OFFSET, self.days) THEN "Present" ELSE "Past"

AsEra(self) == IF FGe(self.days, J1900_OFFSET) THEN "Present" ELSE "Past"

\* the modifier without its sign flip for the Past era
AsModifier_one(self) == One

AsModifier(self) == IF FGe(self.days, J1900_OFFSET) THEN One ELSE MinusOne

SecsFrac(self) ==
    FMul(FMul(FSub(self.days, J1900_OFFSET), SECONDS_PER_DAY), AsModifier(self))

\* seconds truncated instead of rounded
Seconds_trunc(sf) ==
    IF sf.k # "fin" THEN sf ELSE FRoundBits(sf.s, FTrunc(sf), FALSE, 0)

Seconds(sf) == FRound(sf)

Nanos(self, sf, sec) ==
    FDiv(FMul(FSub(sf, sec), GIGA), FMul(SECONDS_PER_DAY, AsModifier(self)))

\* the Instants `Instant::new(seconds as u64, nanos.round() as u32, era)` can be
NewInstants(self, sec, nan) ==
    { Instant(AsEra(self), s, n) :
        s \in CastUnsigned(sec, U64Bits),
        n \in CastUnsigned(FRound(nan), U32Bits) }

as_instant(self) ==
    LET sf  == SecsFrac(self)
        sec == Seconds(sf)
    IN  NewInstants(self, sec, Nanos(self, sf, sec))

(***************************************************************************)
(* The inputs.  Instants: a grid of seconds and nanoseconds around the     *)
(* values where the conversions change behaviour, whole-second Instants    *)
(* spread over [1, 10^8], and a few with seconds beyond 2^53.  Days: the   *)
(* epoch, tenths of a second either side of it, and values at the edges of *)
(* the u64 and f64 ranges.                                                 *)
(***************************************************************************)
MaxSmallSecs  == 2
MaxDays       == 1
MaxSmallNanos == 2
MaxStrides    == 200
MaxTenths     == 12
MaxCalls      == 2

Eras == {"Present", "Past"}

GridSecs ==
    {N(k) : k \in 0..MaxSmallSecs}
    \cup {N(86400 * k + j) : k \in 1..MaxDays, j \in {-1, 0, 1}}
    \cup {N(43200), N(10^8 - 1), N(10^8), N(15020 * 86400)}
    \cup {BAdd(BPow2(53), <<1>>), BSub(BPow2(64), <<1>>)}

GridNanos ==
    {N(k) : k \in 0..MaxSmallNanos}
    \cup {N(5787), N(5788), N(5 * 10^8), N(10^9 - 1)}

GridInstants == {Instant(e, s, n) : e \in Eras, s \in GridSecs, n \in GridNanos}

StrideInstants == {Instant(e, N(497509 * k), <<>>) : e \in Eras, k \in 1..MaxStrides}

Instants == GridInstants \cup StrideInstants

\* the Instants a converted Instant is compared with
PeerInstants ==
    {Instant(e, N(s), N(n)) : e \in Eras, s \in {0, 1}, n \in {0, 5 * 10^8}}

PeerDays == [y \in PeerInstants |-> from_instant(y)]

\* 15020 days and t tenths of a second, t possibly negative
DaysAtTenths(t) ==
    LET epoch == BMul(N(15020), N(864000))
    IN  FRoundRat(0, IF t >= 0 THEN BAdd(epoch, N(t)) ELSE BSub(epoch, N(0 - t)),
                  N(864000), 0)

DaysSamples ==
    {DaysAtTenths(t) : t \in (0 - MaxTenths)..MaxTenths}
    \cup {FZero(0), MinusOne, FRoundBits(0, N(30039), FALSE, -1)}
    \cup {FRoundBits(0, <<1>>, FALSE, EMin),
          FRoundBits(0, <<1>>, FALSE, 47), FRoundBits(0, <<1>>, FALSE, 48),
          FRoundBits(0, <<1>>, FALSE, 1000), FRoundBits(1, <<1>>, FALSE, 1000),
          FRoundBits(0, BSub(BPow2(Precision), <<1>>), FALSE, EMax),
          FRoundBits(1, BSub(BPow2(Precision), <<1>>), FALSE, EMax)}

NoInstant == Instant("None", <<>>, <<>>)
NoFloat   == [k |-> "none", s |-> 0, m |-> <<>>, e |-> 0]

(***************************************************************************)
(* The state: an Instant given to from_instant (or none, when the          *)
(* ModifiedJulian was constructed from its public field), the              *)
(* ModifiedJulian `self`, the locals of as_instant and the Instant it      *)
(* returns, the results of the calls of julian_days, and a second Instant  *)
(* with its conversion.                                                    *)
(***************************************************************************)
VARIABLES pc, instant, self, secs_frac, seconds, nanos, result,
          jd, jd_prev, calls, peer, peer_mjd

vars == <<pc, instant, self, secs_frac, seconds, nanos, result,
          jd, jd_prev, calls, peer, peer_mjd>>

Init ==
    /\ \/ pc = "start" /\ instant \in Instants /\ self = ModifiedJulian(NoFloat)
       \/ pc = "mjd" /\ instant = NoInstant /\ self \in {ModifiedJulian(d) : d \in DaysSamples}
    /\ secs_frac = NoFloat /\ seconds = NoFloat /\ nanos = NoFloat
    /\ result = NoInstant
    /\ jd = NoFloat /\ jd_prev = NoFloat /\ calls = 0
    /\ peer = NoInstant /\ peer_mjd = ModifiedJulian(NoFloat)

FromInstant ==
    /\ pc = "start"
    /\ self' = from_instant(instant)
    /\ pc' = "mjd"
    /\ UNCHANGED <<instant, secs_frac, seconds, nanos, result, jd, jd_prev, calls,
                   peer, peer_mjd>>

AsInstant ==
    /\ pc = "mjd"
    /\ secs_frac' = SecsFrac(self)
    /\ seconds' = Seconds(secs_frac')
    /\ nanos' = Nanos(self, secs_frac', seconds')
    /\ result' \in NewInstants(self, seconds', nanos')
    /\ pc' = "instant"
    /\ UNCHANGED <<instant, self, jd, jd_prev, calls, peer, peer_mjd>>

JulianDays ==
    /\ pc \in {"mjd", "jd"}
    /\ calls < MaxCalls
    /\ jd' = julian_days(self)
    /\ jd_prev' = jd
    /\ calls' = calls + 1
    /\ pc' = "jd"
    /\ UNCHANGED <<instant, self, secs_frac, seconds, nanos, result, peer, peer_mjd>>

\* from_instant of a second Instant, to compare with the first
PeerFromInstant ==
    /\ pc = "mjd"
    /\ instant \in GridInstants
    /\ \E y \in PeerInstants :
          /\ peer' = y
          /\ peer_mjd' = PeerDays[y]
    /\ pc' = "pair"
    /\ UNCHANGED <<instant, self, secs_frac, seconds, nanos, result, jd, jd_prev, calls>>

Next == FromInstant \/ AsInstant \/ JulianDays \/ PeerFromInstant

Spec == Init /\ [][Next]_vars

(***************************************************************************)
(* Exact arithmetic for the properties: signed integers <<sign, magnitude>> *)
(* with sign 1 or -1.                                                      *)
(***************************************************************************)
SAdd(x, y) ==
    IF x[1] = y[1] THEN <<x[1], BAdd(x[2], y[2])>>
    ELSE IF BLe(y[2], x[2]) THEN <<x[1], BSub(x[2], y[2])>>
    ELSE <<y[1], BSub(y[2], x[2])>>

SNeg(x) == <<0 - x[1], x[2]>>

FSign(a) == IF a.s = 1 THEN -1 ELSE 1

EraSign(era) == IF era = "Present" THEN 1 ELSE -1

\* nanoseconds in a second, and an Instant's distance from the epoch in them
Ticks(x) == BAdd(BMul(x.secs, N(10^9)), x.nanos)

\* x is strictly earlier than y, by signed offset from the reference epoch
Earlier(x, y) ==
    IF x.era = "Past" /\ y.era = "Present" THEN Ticks(x) # <<>> \/ Ticks(y) # <<>>
    ELSE IF x.era = "Present" /\ y.era = "Present" THEN BLt(Ticks(x), Ticks(y))
    ELSE IF x.era = "Past" /\ y.era = "Past" THEN BLt(Ticks(y), Ticks(x))
    ELSE FALSE

\* the range of the round-trip properties
NearEpoch(x) == BLe(x.secs, N(10^8)) /\ BLe(x.nanos, N(10^9 - 1))

(***************************************************************************)
(* C1.  Round trip near the epoch, Present era: as_instant(from_instant(x)) *)
(* has the seconds and the nanos of x, for x in the Present era with       *)
(* seconds in [0, 10^8] and nanos in [0, 999_999_999].                     *)
(* from_instant adds nanos * 1e-9 to a count of days, so a nanosecond      *)
(* counts as 86_400 of them and the round trip fails from nanos = 5788 on. *)
(***************************************************************************)
C1_RoundTripPresent ==
    (pc = "instant" /\ instant.era = "Present" /\ NearEpoch(instant))
        => (result.secs = instant.secs /\ result.nanos = instant.nanos)

(***************************************************************************)
(* C2.  Round trip, Past era: the same for x in the Past era.              *)
(***************************************************************************)
C2_RoundTripPast ==
    (pc = "instant" /\ instant.era = "Past" /\ NearEpoch(instant))
        => (result.secs = instant.secs /\ result.nanos = instant.nanos)

(***************************************************************************)
(* C3.  Monotonicity of from_instant: of two Instants, the strictly        *)
(* earlier one (by signed offset from the epoch) has the smaller or equal  *)
(* days.                                                                   *)
(***************************************************************************)
C3_Monotonic ==
    pc = "pair" =>
        /\ Earlier(instant, peer) => FLe(self.days, peer_mjd.days)
        /\ Earlier(peer, instant) => FLe(peer_mjd.days, self.days)

(***************************************************************************)
(* C4.  Era boundary of as_instant: the era returned is Present exactly    *)
(* when days >= 15020, at days = 15020.0 the result is (Present, 0, 0),    *)
(* and one second below (the f64 nearest 15020 - 1/86400) it is            *)
(* (Past, 1, 0).                                                           *)
(***************************************************************************)
\* days >= 15020, decided on the integer part of days
AtOrAfterEpoch(d) == d.s = 0 /\ d.m # <<>> /\ BLe(N(15020), FTrunc(d))

OneSecondBefore == FRoundRat(0, N(15020 * 86400 - 1), N(86400), 0)

C4_EraBoundary ==
    pc = "instant" =>
        /\ result.era = "Present" <=> AtOrAfterEpoch(self.days)
        /\ result.era \in {"Present", "Past"}
        /\ self.days = FFromNat(N(15020)) => result = Instant("Present", <<>>, <<>>)
        /\ self.days = OneSecondBefore => result = Instant("Past", <<1>>, <<>>)

C4_Witness ==
    /\ pc = "instant"
    /\ self.days = OneSecondBefore
    /\ result = Instant("Past", <<1>>, <<>>)

(***************************************************************************)
(* C5.  from_instant computes 15020 + modifier * seconds / 86400 +         *)
(* nanos * 1e-9, the nanosecond term added with a positive sign in both    *)
(* eras: days is within 2^-50 (relative to the size of the terms) of the   *)
(* exact value of that formula, and from_instant(Present, 0, 0).days is    *)
(* exactly 15020.0.                                                        *)
(***************************************************************************)
\* nanoseconds in a day
DayTicks == BMul(N(86400), N(10^9))

\* DayTicks * (15020 + sign * secs / 86400 + nanos / 10^9), exactly
FormulaTicks(x) ==
    SAdd(SAdd(<<1, BMul(N(15020), DayTicks)>>,
              <<EraSign(x.era), BMul(x.secs, N(10^9))>>),
         <<1, BMul(x.nanos, N(86400))>>)

\* DayTicks * the sum of the sizes of the three terms
FormulaSize(x) ==
    BAdd(BAdd(BMul(N(15020), DayTicks), BMul(x.secs, N(10^9))), BMul(x.nanos, N(86400)))

\* |d - FormulaTicks(x) / DayTicks| * 2^50 <= FormulaSize(x) / DayTicks, with both
\* sides in units of 2^-k / DayTicks
CloseToFormula(d, x) ==
    LET k    == Max(0, 0 - d.e)
        fl   == <<FSign(d), BMul(BShl(d.m, d.e + k), DayTicks)>>
        ex   == <<FormulaTicks(x)[1], BShl(FormulaTicks(x)[2], k)>>
        diff == SAdd(fl, SNeg(ex))
    IN  BLe(BShl(diff[2], 50), BShl(FormulaSize(x), k))

CloseToSum(j, d) ==
    IF d.m = <<>> THEN j = FRoundBits(0, N(4800001), FALSE, -1)
    ELSE IF d.e > 64 THEN j = d
    ELSE IF d.e < -128 THEN j = FRoundBits(0, N(4800001), FALSE, -1)
    ELSE LET k    == Max(1, Max(0 - d.e, 0 - j.e))
             sum  == SAdd(<<FSign(d), BShl(d.m, d.e + k)>>, <<1, BShl(N(4800001), k - 1)>>)
             diff == SAdd(<<FSign(j), BShl(j.m, j.e + k)>>, SNeg(sum))
             size == BAdd(BShl(d.m, d.e + k), BShl(N(4800001), k - 1))
         IN  BLe(BShl(diff[2], Precision), size)

C6_JulianDays ==
    /\ [](calls > 0 =>
            /\ IsFinite(jd)
            /\ CloseToSum(jd, self.days)
            /\ self.days = FFromNat(N(15020)) => jd = FRoundBits(0, N(4830041), FALSE, -1)
            /\ calls > 1 => jd_prev = jd)
    /\ [][calls' # calls => self' = self]_vars

C6_Witness ==
    /\ calls = 2
    /\ self.days = FFromNat(N(15020))
    /\ jd = FRoundBits(0, N(4830041), FALSE, -1)
    /\ jd_prev = jd

(***************************************************************************)
(* C7.  as_instant fails fast: when the rounded seconds value is negative  *)
(* or beyond the u64 range it signals a contract violation and returns no  *)
(* Instant.  as_instant has no path that signals anything: every call      *)
(* returns, so the claim is that it returns only for seconds in range.     *)
(***************************************************************************)
C7_FailFast ==
    pc = "instant" => InRange(seconds, U64Bits)

(***************************************************************************)
(* C8.  The nanosecond value as_instant computes is, once rounded and      *)
(* before the cast to u32, a non-negative integer below 10^9.              *)
(***************************************************************************)
C8_NanosNonNegative ==
    pc = "instant" =>
        /\ IsFinite(FRound(nanos))
        /\ FGe(FRound(nanos), FZero(0))
        /\ FLt(FRound(nanos), FFromNat(N(10^9)))

(***************************************************************************)
(* C9.  In as_instant, secs_frac is non-negative for every finite days in  *)
(* both eras, and so the rounded seconds value is never negative.          *)
(***************************************************************************)
C9_SecsFracNonNegative ==
    pc = "instant" =>
        /\ secs_frac.k \in {"fin", "inf"} /\ secs_frac.s = 0
        /\ seconds.k \in {"fin", "inf"} /\ seconds.s = 0

C9_Witness ==
    /\ pc = "instant"
    /\ self.days = MinusOne
    /\ result.era = "Past"
    /\ secs_frac = FFromNat(N(15021 * 86400))

(***************************************************************************)
(* C10.  Whole-second round trip: for nanos = 0 and seconds in [1, 10^8],  *)
(* in either era, as_instant(from_instant(x)) is x; among the whole-second *)
(* Instants only (Past, 0, 0) loses its era: it maps to days = 15020.0 and *)
(* comes back as (Present, 0, 0).                                          *)
(***************************************************************************)
C10_WholeSeconds ==
    (pc = "instant" /\ instant # NoInstant /\ instant.nanos = <<>>) =>
        /\ (instant.secs # <<>> /\ BLe(instant.secs, N(10^8))) => result = instant
        /\ result.era # instant.era <=> instant = Instant("Past", <<>>, <<>>)
        /\ instant = Instant("Past", <<>>, <<>>) =>
              /\ self.days = FFromNat(N(15020))
              /\ result = Instant("Present", <<>>, <<>>)

C10_Witness ==
    /\ pc = "instant"
    /\ instant = Instant("Past", N(10^8), <<>>)
    /\ result = instant

=============================================================================
